---------------------------- MODULE Spec2Model ----------------------------
(***************************************************************************)
(* Quotation server (src/server/server.go) and quotation client            *)
(* (src/client/client.go, lines 1-110; the rest of that file holds two     *)
(* earlier variants of the server, which are not modelled).                *)
(*                                                                         *)
(* A session is one client invocation together with the handler invocation *)
(* its request starts on the server.  Text is a sequence of tokens, so     *)
(* that fmt.Sprint is concatenation.  JSON values are tagged records and   *)
(* the decoders are computed as encoding/json computes them for the struct *)
(* types of the source.  Time is discrete; a context with a deadline holds  *)
(* the number of clock ticks it has left; each session has its own clock,   *)
(* which runs while one of its contexts is live.  The server process is    *)
(* started by startDatabase on the database file and may be stopped and    *)
(* started again once the requests of the sessions are over.               *)
(***************************************************************************)
EXTENDS Integers, Sequences, FiniteSets, TLC

(* ------------------------------ bounds -------------------------------- *)

\* the value given to the server's -rt flag, in clock ticks
ServerRT == 1

\* the value given to the server's -dbt flag, in clock ticks
ServerDBT == 1

\* the value given to the client's -rt flag, in clock ticks
ClientRT == 2

\* the sessions: two client invocations, each with its request to the server
Sessions == {1, 2}

(* ------------------------- configuration ------------------------------ *)

\* server: parseFlagValues
requestTimeout == ServerRT

databaseTimeout == ServerDBT

\* client: parseFlagValues
clientRequestTimeout == ClientRT

\* the time left of a context without a deadline: more than any timeout
NoDeadline == ServerRT + ServerDBT + ClientRT + 1

StatusOK == 200

StatusInternalServerError == 500

(* ------------------------------ text ---------------------------------- *)

\* time.Duration formatted by fmt.Sprint
DurationString(d) == <<ToString(d), "tick">>

\* strconv of an int under the %d verb
IntString(n) == <<ToString(n)>>

\* fmt.Sprint(prefix, err): the prefix followed by err.Error()
SprintErr(prefix, err) == <<prefix>> \o err

(* ----------------------------- errors --------------------------------- *)
\* An error is the sequence of the texts of its wrapping chain, outermost
\* first; err.Error() is their concatenation and errors.Is walks the chain.

NoError == <<>>

DeadlineExceeded == "context deadline exceeded"

Canceled == "context canceled"

ErrTransport == "connection refused"

ErrSyntax == "invalid character"

ErrUnmarshalType == "json: cannot unmarshal"

ErrEOF == "EOF"

ErrUnexpectedEOF == "unexpected EOF"

ErrPrepare == "no such table: cotacao"

ErrExec == "database is locked"

ErrWrite == "broken pipe"

ErrOpen == "permission denied"

ErrorsIs(err, target) == \E k \in 1..Len(err) : err[k] = target

\* fmt.Errorf("<text> %w", err)
ErrorfW(text, err) == <<text>> \o err

(* ------------------------------ JSON ---------------------------------- *)

JStr(s) == [t |-> "str", s |-> s]

JNum(n) == [t |-> "num", n |-> n]

JObj(o) == [t |-> "obj", o |-> o]

\* a body that is not JSON (an HTML error page, a truncated document)
JBad == [t |-> "bad"]

\* the fields of struct Quotation, in declaration order
QFields ==
  <<"Code", "CodeIn", "Name", "High", "Low", "VarBid", "PctChange", "Bid",
    "Ask", "Timestamp", "CreateDate">>

QFieldSet == {QFields[k] : k \in 1..Len(QFields)}

\* the json tag of each field of struct Quotation
JsonKey(f) ==
  CASE f = "Code" -> "code"
    [] f = "CodeIn" -> "codein"
    [] f = "Name" -> "name"
    [] f = "High" -> "high"
    [] f = "Low" -> "low"
    [] f = "VarBid" -> "varBid"
    [] f = "PctChange" -> "pctChange"
    [] f = "Bid" -> "bid"
    [] f = "Ask" -> "ask"
    [] f = "Timestamp" -> "timestamp"
    [] f = "CreateDate" -> "create_date"

\* the zero value of USDBRLQuotation
ZeroQuotation == [f \in QFieldSet |-> <<>>]

\* json.NewDecoder(resp.Body).Decode(&cotacao) for cotacao of type
\* USDBRLQuotation: a syntax error or a value of the wrong JSON type is an
\* error; a missing key leaves the field at its zero value and unknown keys
\* are ignored.  rerr is the error of reading the body, if any.
DecodeUSDBRLQuotation(v, rerr) ==
  IF rerr # NoError THEN [err |-> rerr, val |-> ZeroQuotation]
  ELSE IF v.t = "bad" THEN [err |-> <<ErrSyntax>>, val |-> ZeroQuotation]
  ELSE IF v.t # "obj" THEN [err |-> <<ErrUnmarshalType>>, val |-> ZeroQuotation]
  ELSE IF "USDBRL" \notin DOMAIN v.o THEN [err |-> NoError, val |-> ZeroQuotation]
  ELSE LET u == v.o["USDBRL"] IN
    IF u.t # "obj" THEN [err |-> <<ErrUnmarshalType>>, val |-> ZeroQuotation]
    ELSE IF \E f \in QFieldSet :
              JsonKey(f) \in DOMAIN u.o /\ u.o[JsonKey(f)].t # "str"
      THEN [err |-> <<ErrUnmarshalType>>, val |-> ZeroQuotation]
      ELSE [err |-> NoError,
            val |-> [f \in QFieldSet |->
                       IF JsonKey(f) \in DOMAIN u.o
                         THEN u.o[JsonKey(f)].s ELSE <<>>]]

\* json.Marshal of QuotationResponse{Bid}
MarshalQuotationResponse(bid) == JObj([bid |-> JStr(bid)])

\* json.Marshal of the server's ErrorResponse{Error, StatusCode}
MarshalErrorResponse(e) ==
  JObj([error |-> JStr(e.Error), status_code |-> JNum(e.StatusCode)])

\* the first JSON value of a body stream, or the error of reading it
FirstValue(stream, rerr) ==
  IF rerr # NoError THEN [err |-> rerr, v |-> JBad]
  ELSE IF Len(stream) = 0 THEN [err |-> <<ErrEOF>>, v |-> JBad]
  ELSE IF stream[1].t = "bad" THEN [err |-> <<ErrSyntax>>, v |-> JBad]
  ELSE [err |-> NoError, v |-> stream[1]]

\* the client's json.NewDecoder(r).Decode(&cotacao), cotacao a
\* QuotationResponse
DecodeQuotationResponse(stream, rerr) ==
  LET h == FirstValue(stream, rerr) IN
  IF h.err # NoError THEN [err |-> h.err, val |-> [Bid |-> <<>>]]
  ELSE IF h.v.t # "obj" THEN [err |-> <<ErrUnmarshalType>>, val |-> [Bid |-> <<>>]]
  ELSE IF "bid" \notin DOMAIN h.v.o THEN [err |-> NoError, val |-> [Bid |-> <<>>]]
  ELSE IF h.v.o["bid"].t # "str"
    THEN [err |-> <<ErrUnmarshalType>>, val |-> [Bid |-> <<>>]]
    ELSE [err |-> NoError, val |-> [Bid |-> h.v.o["bid"].s]]

ZeroErrorResponse == [Error |-> <<>>, StatusCode |-> 0]

\* the client's json.NewDecoder(r).Decode(&errResp), errResp an ErrorResponse
DecodeErrorResponse(stream, rerr) ==
  LET h == FirstValue(stream, rerr) IN
  IF h.err # NoError THEN [err |-> h.err, val |-> ZeroErrorResponse]
  ELSE IF h.v.t # "obj" THEN [err |-> <<ErrUnmarshalType>>, val |-> ZeroErrorResponse]
  ELSE IF \/ "error" \in DOMAIN h.v.o /\ h.v.o["error"].t # "str"
          \/ "status_code" \in DOMAIN h.v.o /\ h.v.o["status_code"].t # "num"
    THEN [err |-> <<ErrUnmarshalType>>, val |-> ZeroErrorResponse]
    ELSE [err |-> NoError,
          val |-> [Error |-> IF "error" \in DOMAIN h.v.o
                               THEN h.v.o["error"].s ELSE <<>>,
                   StatusCode |-> IF "status_code" \in DOMAIN h.v.o
                                    THEN h.v.o["status_code"].n ELSE 0]]

(* ------------------------ upstream replies ---------------------------- *)

Bids == {<<"5.45">>, <<"5.46">>}

\* {"USDBRL":{"code":"USD","codein":"BRL",...,"bid":bid,...}}
QuotationJSON(bid) ==
  JObj([USDBRL |->
    JObj([code |-> JStr(<<"USD">>), codein |-> JStr(<<"BRL">>),
          name |-> JStr(<<"Dólar/Real">>), high |-> JStr(<<"5.50">>),
          low |-> JStr(<<"5.40">>), varBid |-> JStr(<<"0.01">>),
          pctChange |-> JStr(<<"0.18">>), bid |-> JStr(bid),
          ask |-> JStr(<<"5.47">>), timestamp |-> JStr(<<"1700000000">>),
          create_date |-> JStr(<<"2023-11-14 10:00:00">>)])])

\* the upstream API's error document: valid JSON without the USDBRL key
ApiErrorJSON ==
  JObj([status |-> JNum(404), code |-> JStr(<<"CoinNotExists">>),
        message |-> JStr(<<"moeda nao encontrada USD-BRX">>)])

\* a quotation whose bid is a JSON number instead of a string
NumericBidJSON ==
  JObj([USDBRL |-> JObj([code |-> JStr(<<"USD">>), bid |-> JNum(5)])])

\* what the upstream source may answer: an HTTP status and a body
UpstreamReplies ==
  {[StatusCode |-> 200, Body |-> QuotationJSON(b)] : b \in Bids}
    \cup {[StatusCode |-> 200, Body |-> NumericBidJSON],
          [StatusCode |-> 404, Body |-> ApiErrorJSON],
          [StatusCode |-> 502, Body |-> JBad]}

NoReply == [StatusCode |-> 0, Body |-> JBad]

(* --------------------------- contexts --------------------------------- *)

Min(a, b) == IF a <= b THEN a ELSE b

\* faulty variant: the timeout is dropped and the parent's time left is kept
WithTimeoutParentOnly(parentLeft, d) == parentLeft

\* the time left of context.WithTimeout(parent, d) when it is created: the
\* stricter of the parent's time left and d
WithTimeout(parentLeft, d) == Min(parentLeft, d)

\* faulty variant: the cancellation of the parent does not reach the context
CtxErrsDeadlineOnly(left, parentCanceled) ==
  IF left = 0 THEN {DeadlineExceeded} ELSE {}

\* the errors ctx.Err() may report for a context with the given time left
\* whose parent is (or is not) cancelled; empty while the context is live
CtxErrs(left, parentCanceled) ==
  (IF left = 0 THEN {DeadlineExceeded} ELSE {})
    \cup (IF parentCanceled THEN {Canceled} ELSE {})

\* one clock tick on a context
TickCtx(left) == IF left = NoDeadline \/ left = 0 THEN left ELSE left - 1

(* ------------------------ http.ResponseWriter ------------------------- *)

NewResponseWriter == [wroteHeader |-> FALSE, status |-> 0, body |-> <<>>]

\* w.WriteHeader(code): only the first call sets the status line
WriteHeader(rw, code) ==
  IF rw.wroteHeader THEN rw
  ELSE [rw EXCEPT !.wroteHeader = TRUE, !.status = code]

\* w.Write of one encoded value: an implicit WriteHeader(200) if none was
\* made; ok tells whether the write succeeded
Write(rw, v, ok) ==
  LET rw1 == WriteHeader(rw, StatusOK) IN
  [rw1 EXCEPT !.body = Append(@, [v |-> v, ok |-> ok])]

\* sendMsgError(w, msg, statusCode); the result of Encode is discarded
sendMsgError(rw, msg, statusCode, ok) ==
  Write(WriteHeader(rw, statusCode),
        MarshalErrorResponse([Error |-> msg, StatusCode |-> statusCode]), ok)

\* the values of the body that reached the connection
Delivered(rw) ==
  LET d == SelectSeq(rw.body, LAMBDA e : e.ok) IN
  [k \in 1..Len(d) |-> d[k].v]

(* ------------------------- saveQuotationToDB -------------------------- *)

\* the column list of the INSERT statement
Columns ==
  <<"code", "code_in", "name", "high", "low", "var_bid", "pct_change", "bid",
    "ask", "timestamp", "create_date">>

\* faulty variant: the bid and ask arguments are passed in each other's place
ExecArgsBidAskSwapped(q) ==
  <<q.Code, q.CodeIn, q.Name, q.High, q.Low, q.VarBid, q.PctChange, q.Ask,
    q.Bid, q.Timestamp, q.CreateDate>>

\* the arguments of stmt.ExecContext, in order
ExecArgs(q) ==
  <<q.Code, q.CodeIn, q.Name, q.High, q.Low, q.VarBid, q.PctChange, q.Bid,
    q.Ask, q.Timestamp, q.CreateDate>>

\* faulty variant: the bid column is left out of the INSERT and stays empty
InsertedRowBidOmitted(q) ==
  [c \in {Columns[k] : k \in 1..Len(Columns)} |->
     IF c = "bid" THEN <<>>
     ELSE ExecArgs(q)[CHOOSE k \in 1..Len(Columns) : Columns[k] = c]]

\* the row the INSERT adds: the k-th argument goes to the k-th column
InsertedRow(q) ==
  [c \in {Columns[k] : k \in 1..Len(Columns)} |->
     ExecArgs(q)[CHOOSE k \in 1..Len(Columns) : Columns[k] = c]]

(* ----------------------------- messages ------------------------------- *)

MsgTimeout == <<"requisi????o ultrapassou o tempo m??ximo de ">> \o DurationString(requestTimeout)

MsgDoFailed(err) == SprintErr("GET /cotacao - requisi????o falhou: ", err)

MsgDecodeFailed(err) ==
  SprintErr("GET /cotacao - falha ao decodificar corpo da requisi????o: ", err)

MsgSaveFailed(err) == SprintErr("GET /cotacao - falha ao salvar dados no banco: ", err)

MsgEncodeFailed(err) == SprintErr("GET /cotacao - falha ao enviar requisi????o: ", err)

(* --------------------------- client text ------------------------------ *)

ClientMsgTimeout ==
  <<"Requisição ultrapassou o tempo máximo de ">> \o DurationString(clientRequestTimeout)

ClientMsgDoFailed(err) == SprintErr("Requisição falhou: ", err)

\* log.Fatalln("Falha ao decodificar corpo da requisição:", err)
ClientMsgDecodeFailed(err) ==
  <<"Falha ao decodificar corpo da requisição:", " ">> \o err

ClientMsgWriteFailed(err) == <<"Falha ao salvar dados em disco:", " ">> \o err

\* fmt.Sprintf("Ocorreu um erro: %s\nCódigo: %d\n", Error, StatusCode)
ClientMsgServerError(e) ==
  <<"Ocorreu um erro: ">> \o e.Error \o <<"\nCódigo: ">> \o IntString(e.StatusCode)

\* msg := fmt.Sprint("Dólar: ", cotacao.Bid)
FileMsg(bid) == <<"Dólar: ">> \o bid

\* what fmt.Fprintln(file, msg) writes
FileLine(msg) == msg \o <<"\n">>

(* ----------------------------- state ---------------------------------- *)

VARIABLES
  cpc,        \* client: "init", "do" (request in flight), "exit"
  cctx,       \* client: time left of the request context
  creq,       \* client: number of requests issued
  cexit,      \* client: exit status of the process (-1 while running)
  cmsg,       \* client: the last message logged
  crecv,      \* client: the status of the response received (0: none)
  cfailed,    \* client: the step that ended the process with log.Fatal
  file,       \* cotacao.txt: the chunks appended, in order
  spc,        \* handler: "idle", "fetch", "decode", "prepare", "exec",
              \*          "respond", "done"
  rCanceled,  \* handler: r.Context() is cancelled
  ctx,        \* handler: time left of ctx (line 106)
  dbCtx,      \* handler: time left of dbCtx (line 181)
  resp,       \* handler: the upstream response
  cotacao,    \* handler: the decoded quotation
  w,          \* handler: the response writer
  failed,     \* handler: the stage that failed and its error
  nGet,       \* handler: outbound GETs issued
  nInsert,    \* handler: ExecContext calls made
  rows,       \* table cotacao: the rows, each with the request that added it
  server,     \* server process: "stopped", "serving", "fatal" (exit status 1)
  sfatal,     \* server process: the error of the log.Fatalln that ended it
  tables,     \* cotacao.db: the names of its tables, in creation order
  boot        \* what the latest startDatabase found: "none" (never run),
              \* "absent" (it created the table), "present"

vars ==
  <<cpc, cctx, creq, cexit, cmsg, crecv, cfailed, file, spc, rCanceled, ctx, dbCtx, resp,
    cotacao, w, failed, nGet, nInsert, rows, server, sfatal, tables, boot>>

processVars == <<server, sfatal, tables, boot>>

clientVars == <<cpc, cctx, creq, cexit, cmsg, crecv, cfailed, file>>

handlerVars ==
  <<spc, rCanceled, ctx, dbCtx, resp, cotacao, w, failed, nGet, nInsert, rows>>

NoFailure == [stage |-> "none", err |-> NoError]

Init ==
  /\ cpc = [i \in Sessions |-> "init"]
  /\ cctx = [i \in Sessions |-> NoDeadline]
  /\ creq = [i \in Sessions |-> 0]
  /\ cexit = [i \in Sessions |-> -1]
  /\ cmsg = [i \in Sessions |-> <<>>]
  /\ crecv = [i \in Sessions |-> 0]
  /\ cfailed = [i \in Sessions |-> "none"]
  /\ file = <<>>
  /\ spc = [i \in Sessions |-> "idle"]
  /\ rCanceled = [i \in Sessions |-> FALSE]
  /\ ctx = [i \in Sessions |-> NoDeadline]
  /\ dbCtx = [i \in Sessions |-> NoDeadline]
  /\ resp = [i \in Sessions |-> NoReply]
  /\ cotacao = [i \in Sessions |-> ZeroQuotation]
  /\ w = [i \in Sessions |-> NewResponseWriter]
  /\ failed = [i \in Sessions |-> NoFailure]
  /\ nGet = [i \in Sessions |-> 0]
  /\ nInsert = [i \in Sessions |-> 0]
  /\ rows = <<>>
  /\ server = "stopped"
  /\ sfatal = NoError
  /\ tables = <<>>
  /\ boot = "none"

\* the time left of r.Context(): the server sets no deadline on it
rContextLeft == NoDeadline

(* ----------------------------- clock ---------------------------------- *)

\* One tick of session i's clock: every live context of the session loses
\* one tick.  The client's context is live while its request is in flight,
\* ctx from line 106 until the handler returns, dbCtx during ExecContext.
Tick(i) ==
  /\ \/ cpc[i] = "do" /\ cctx[i] > 0
     \/ spc[i] \notin {"idle", "done"} /\ ctx[i] > 0
     \/ spc[i] = "exec" /\ dbCtx[i] > 0
  /\ cctx' = [cctx EXCEPT ![i] = IF cpc[i] = "do" THEN TickCtx(@) ELSE @]
  /\ ctx' = [ctx EXCEPT ![i] = TickCtx(@)]
  /\ dbCtx' = [dbCtx EXCEPT ![i] = TickCtx(@)]
  /\ UNCHANGED <<processVars, cpc, creq, cexit, cmsg, crecv, cfailed, file, spc, rCanceled, resp, cotacao,
                 w, failed, nGet, nInsert, rows>>

(* -------------------------- server: startup --------------------------- *)

ErrTableExists == "table cotacao already exists"

ErrDisk == "unable to open database file"

TableExists(tabs, name) == \E k \in 1..Len(tabs) : tabs[k] = name

\* faulty variant: CREATE TABLE name(...) without IF NOT EXISTS
ExecCreateTable(tabs, name) ==
  IF TableExists(tabs, name)
    THEN [err |-> <<ErrTableExists>>, tables |-> tabs]
    ELSE [err |-> NoError, tables |-> Append(tabs, name)]

\* db.Exec of CREATE TABLE IF NOT EXISTS name(...): the table is created
\* when the file has none of that name, and nothing is done otherwise
ExecCreateTableIfNotExists(tabs, name) ==
  IF TableExists(tabs, name)
    THEN [err |-> NoError, tables |-> tabs]
    ELSE [err |-> NoError, tables |-> Append(tabs, name)]

\* lines 67-90, run by main at every start of the process: the statement is
\* executed on cotacao.db; an error (of the statement, or of the file when
\* ioOK is false) ends the process with log.Fatalln.  sql.Open only
\* validates the driver name, so lines 70-72 are never taken.
startDatabase ==
  /\ server # "serving"
  /\ \E ioOK \in BOOLEAN :
       LET r == IF ioOK THEN ExecCreateTableIfNotExists(tables, "cotacao")
                        ELSE [err |-> <<ErrDisk>>, tables |-> tables]
       IN
       /\ tables' = r.tables
       /\ sfatal' = r.err
       /\ server' = IF r.err = NoError THEN "serving" ELSE "fatal"
  /\ boot' = IF TableExists(tables, "cotacao") THEN "present" ELSE "absent"
  /\ UNCHANGED <<clientVars, handlerVars>>

\* lines 98-101: http.ListenAndServe returns, or the process is killed; the
\* model ends the process once the request of every session is over
ServerStop ==
  /\ server = "serving"
  /\ \A i \in Sessions : cpc[i] = "exit" /\ spc[i] \in {"idle", "done"}
  /\ server' = "stopped"
  /\ UNCHANGED <<sfatal, tables, boot, clientVars, handlerVars>>

(* ------------------------ server: cotacaoHandler ---------------------- *)

\* the handler ends on an error path: sendMsgError and return; the deferred
\* cancel functions release the contexts
FailWith(i, stage, err, msg) ==
  /\ w' = [w EXCEPT ![i] = sendMsgError(@, msg, StatusInternalServerError, TRUE)]
  /\ failed' = [failed EXCEPT ![i] = [stage |-> stage, err |-> err]]
  /\ spc' = [spc EXCEPT ![i] = "done"]
  /\ ctx' = [ctx EXCEPT ![i] = NoDeadline]
  /\ dbCtx' = [dbCtx EXCEPT ![i] = NoDeadline]

\* lines 94-116: the serving process takes the request; ctx is derived
\* from r.Context() and the outbound GET is issued.
\* http.NewRequestWithContext cannot fail for
\* the constant method and URL, so lines 110-114 are never taken.
HandlerStart(i) ==
  /\ server = "serving"
  /\ cpc[i] = "do"
  /\ spc[i] = "idle"
  /\ ctx' = [ctx EXCEPT ![i] = WithTimeout(rContextLeft, requestTimeout)]
  /\ nGet' = [nGet EXCEPT ![i] = @ + 1]
  /\ spc' = [spc EXCEPT ![i] = "fetch"]
  /\ UNCHANGED <<processVars, clientVars, rCanceled, dbCtx, resp, cotacao, w, failed,
                 nInsert, rows>>

\* the message of lines 118-123
DoErrorMsg(err) ==
  IF ErrorsIs(err, DeadlineExceeded) THEN MsgTimeout ELSE MsgDoFailed(err)

\* faulty variant: a failed outbound call is issued again instead of being reported
DoErrorRetried(i) ==
  /\ spc[i] = "fetch"
  /\ nGet[i] < 3
  /\ nGet' = [nGet EXCEPT ![i] = @ + 1]
  /\ UNCHANGED <<processVars, clientVars, spc, rCanceled, ctx, dbCtx, resp, cotacao, w,
                 failed, nInsert, rows>>

\* lines 116-126: http.DefaultClient.Do returns an error
DoError(i) ==
  /\ spc[i] = "fetch"
  /\ \E e \in CtxErrs(ctx[i], rCanceled[i]) \cup {ErrTransport} :
       FailWith(i, "fetch", <<e>>, DoErrorMsg(<<e>>))
  /\ UNCHANGED <<processVars, clientVars, rCanceled, resp, cotacao, nGet, nInsert, rows>>

\* lines 116, 127: the response header arrives while ctx is live
DoResponse(i) ==
  /\ spc[i] = "fetch"
  /\ CtxErrs(ctx[i], rCanceled[i]) = {}
  /\ \E r \in UpstreamReplies : resp' = [resp EXCEPT ![i] = r]
  /\ spc' = [spc EXCEPT ![i] = "decode"]
  /\ UNCHANGED <<processVars, clientVars, rCanceled, ctx, dbCtx, cotacao, w, failed,
                 nGet, nInsert, rows>>

\* the errors reading resp.Body may report: the context's once it is done,
\* or a broken connection
BodyReadErrs(i) ==
  {<<e>> : e \in CtxErrs(ctx[i], rCanceled[i]) \cup {ErrUnexpectedEOF}}
    \cup (IF CtxErrs(ctx[i], rCanceled[i]) = {} THEN {NoError} ELSE {})

\* lines 129-135: decoding the body fails
DecodeError(i) ==
  /\ spc[i] = "decode"
  /\ \E rerr \in BodyReadErrs(i) :
       LET d == DecodeUSDBRLQuotation(resp[i].Body, rerr) IN
       /\ d.err # NoError
       /\ FailWith(i, "decode", d.err, MsgDecodeFailed(d.err))
  /\ UNCHANGED <<processVars, clientVars, rCanceled, resp, cotacao, nGet, nInsert, rows>>

\* faulty variant: the decoded quotation is answered without being saved
DecodeOKNotSaved(i) ==
  /\ spc[i] = "decode"
  /\ \E rerr \in BodyReadErrs(i) :
       LET d == DecodeUSDBRLQuotation(resp[i].Body, rerr) IN
       /\ d.err = NoError
       /\ cotacao' = [cotacao EXCEPT ![i] = d.val]
  /\ spc' = [spc EXCEPT ![i] = "respond"]
  /\ UNCHANGED <<processVars, clientVars, rCanceled, ctx, dbCtx, resp, w, failed, nGet,
                 nInsert, rows>>

\* lines 129-137: the body decodes; saveQuotationToDB is called
DecodeOK(i) ==
  /\ spc[i] = "decode"
  /\ \E rerr \in BodyReadErrs(i) :
       LET d == DecodeUSDBRLQuotation(resp[i].Body, rerr) IN
       /\ d.err = NoError
       /\ cotacao' = [cotacao EXCEPT ![i] = d.val]
  /\ spc' = [spc EXCEPT ![i] = "prepare"]
  /\ UNCHANGED <<processVars, clientVars, rCanceled, ctx, dbCtx, resp, w, failed, nGet,
                 nInsert, rows>>

\* lines 162-179, 138-142: db.Prepare fails
PrepareError(i) ==
  /\ spc[i] = "prepare"
  /\ LET err == ErrorfW("falha ao preparar query. ", <<ErrPrepare>>) IN
       FailWith(i, "prepare", err, MsgSaveFailed(err))
  /\ UNCHANGED <<processVars, clientVars, rCanceled, resp, cotacao, nGet, nInsert, rows>>

\* faulty variant: dbCtx is derived from ctx, the context of the outbound call
PrepareOKFromCtx(i) ==
  /\ spc[i] = "prepare"
  /\ dbCtx' = [dbCtx EXCEPT ![i] = WithTimeout(ctx[i], databaseTimeout)]
  /\ nInsert' = [nInsert EXCEPT ![i] = @ + 1]
  /\ spc' = [spc EXCEPT ![i] = "exec"]
  /\ UNCHANGED <<processVars, clientVars, rCanceled, ctx, resp, cotacao, w, failed,
                 nGet, rows>>

\* lines 162-184: the statement is prepared, dbCtx is derived from the
\* handler's r.Context() and ExecContext is called
PrepareOK(i) ==
  /\ spc[i] = "prepare"
  /\ dbCtx' = [dbCtx EXCEPT ![i] = WithTimeout(rContextLeft, databaseTimeout)]
  /\ nInsert' = [nInsert EXCEPT ![i] = @ + 1]
  /\ spc' = [spc EXCEPT ![i] = "exec"]
  /\ UNCHANGED <<processVars, clientVars, rCanceled, ctx, resp, cotacao, w, failed,
                 nGet, rows>>

\* faulty variant: the error of saveQuotationToDB is recorded but not returned on
ExecErrorIgnored(i) ==
  /\ spc[i] = "exec"
  /\ \E e \in CtxErrs(dbCtx[i], rCanceled[i]) \cup {ErrExec} :
       failed' = [failed EXCEPT ![i] =
                    [stage |-> "exec", err |-> ErrorfW("falha ao executar query. ", <<e>>)]]
  /\ spc' = [spc EXCEPT ![i] = "respond"]
  /\ dbCtx' = [dbCtx EXCEPT ![i] = NoDeadline]
  /\ UNCHANGED <<processVars, clientVars, rCanceled, ctx, resp, cotacao, w, nGet, nInsert,
                 rows>>

\* lines 184-200, 138-142: ExecContext fails; no row is added
ExecError(i) ==
  /\ spc[i] = "exec"
  /\ \E e \in CtxErrs(dbCtx[i], rCanceled[i]) \cup {ErrExec} :
       LET err == ErrorfW("falha ao executar query. ", <<e>>) IN
       FailWith(i, "exec", err, MsgSaveFailed(err))
  /\ UNCHANGED <<processVars, clientVars, rCanceled, resp, cotacao, nGet, nInsert, rows>>

\* lines 184-201: ExecContext succeeds while dbCtx is live; one row is
\* added and the deferred cancel releases dbCtx
ExecOK(i) ==
  /\ spc[i] = "exec"
  /\ CtxErrs(dbCtx[i], rCanceled[i]) = {}
  /\ rows' = Append(rows, [req |-> i, row |-> InsertedRow(cotacao[i])])
  /\ spc' = [spc EXCEPT ![i] = "respond"]
  /\ dbCtx' = [dbCtx EXCEPT ![i] = NoDeadline]
  /\ UNCHANGED <<processVars, clientVars, rCanceled, ctx, resp, cotacao, w, failed, nGet,
                 nInsert>>

\* lines 144-145: WriteHeader(200) and Encode(QuotationResponse{cotacao.Bid})
WriteSuccess(rw, bid, ok) ==
  Write(WriteHeader(rw, StatusOK), MarshalQuotationResponse(bid), ok)

\* faulty variant: the quotation is kept in a variable shared by the handlers,
\* so that the response carries the bid of the quotation saved last
RespondLastQuotation(i) ==
  /\ spc[i] = "respond"
  /\ w' = [w EXCEPT ![i] = WriteSuccess(@, rows[Len(rows)].row.bid, TRUE)]
  /\ spc' = [spc EXCEPT ![i] = "done"]
  /\ ctx' = [ctx EXCEPT ![i] = NoDeadline]
  /\ UNCHANGED <<processVars, clientVars, rCanceled, dbCtx, resp, cotacao, failed,
                 nGet, nInsert, rows>>

\* lines 144-151: the success response; when Encode reports an error the
\* handler calls sendMsgError on the same writer.  A write error of the
\* response writer is lasting (the connection is gone, or the response may
\* have no body), so the write made by sendMsgError is not delivered either.
Respond(i) ==
  /\ spc[i] = "respond"
  /\ \E ok \in BOOLEAN :
       LET w1 == WriteSuccess(w[i], cotacao[i].Bid, ok) IN
       IF ok
         THEN /\ w' = [w EXCEPT ![i] = w1]
              /\ failed' = failed
         ELSE /\ w' = [w EXCEPT ![i] =
                         sendMsgError(w1, MsgEncodeFailed(<<ErrWrite>>),
                                      StatusInternalServerError, FALSE)]
              /\ failed' = [failed EXCEPT ![i] =
                              [stage |-> "encode", err |-> <<ErrWrite>>]]
  /\ spc' = [spc EXCEPT ![i] = "done"]
  /\ ctx' = [ctx EXCEPT ![i] = NoDeadline]
  /\ UNCHANGED <<processVars, clientVars, rCanceled, dbCtx, resp, cotacao, nGet, nInsert,
                 rows>>

\* the connection of a client that has exited is closed, which cancels
\* r.Context() of the handler still running for it
CancelInbound(i) ==
  /\ cpc[i] = "exit"
  /\ spc[i] \notin {"idle", "done"}
  /\ ~rCanceled[i]
  /\ rCanceled' = [rCanceled EXCEPT ![i] = TRUE]
  /\ UNCHANGED <<processVars, clientVars, spc, ctx, dbCtx, resp, cotacao, w, failed,
                 nGet, nInsert, rows>>

(* ------------------------------ client -------------------------------- *)

\* log.Fatalln / log.Fatalf in the given step: the message is logged and
\* the process exits with status 1
Fatal(step, msg) == [msg |-> msg, exit |-> 1, failed |-> step]

\* faulty variant: the error of fmt.Fprintln is not checked
saveQuotationToFileWriteUnchecked(i, f, stream, rerr, openOK, wr) ==
  LET d == DecodeQuotationResponse(stream, rerr)
      msg == FileMsg(d.val.Bid)
      line == FileLine(msg)
      saved == [msg |-> <<"Registro salvo em disco.", " ">> \o msg, exit |-> 0,
                failed |-> "none"]
  IN
  IF d.err # NoError
    THEN [file |-> f] @@ Fatal("decode", ClientMsgDecodeFailed(d.err))
  ELSE IF ~openOK
    THEN [file |-> f] @@ Fatal("open", <<ErrOpen>>)
  ELSE IF wr = "ok"
    THEN [file |-> Append(f, [by |-> i, text |-> line])] @@ saved
  ELSE IF wr = "short"
    THEN [file |-> Append(f, [by |-> i, text |-> SubSeq(line, 1, 1)])] @@ saved
    ELSE [file |-> f] @@ saved

\* saveQuotationToFile(resp.Body) on a file holding f: the new content of
\* the file, the message logged and the exit status.  rerr is the error of
\* reading the body, openOK whether os.OpenFile succeeds, wr the outcome of
\* the write ("ok", "short": an error after part of the line was written,
\* "fail": an error with nothing written).
saveQuotationToFile(i, f, stream, rerr, openOK, wr) ==
  LET d == DecodeQuotationResponse(stream, rerr)
      msg == FileMsg(d.val.Bid)
      line == FileLine(msg)
  IN
  IF d.err # NoError
    THEN [file |-> f] @@ Fatal("decode", ClientMsgDecodeFailed(d.err))
  ELSE IF ~openOK
    THEN [file |-> f] @@ Fatal("open", <<ErrOpen>>)
  ELSE IF wr = "ok"
    THEN [file |-> Append(f, [by |-> i, text |-> line]),
          msg |-> <<"Registro salvo em disco.", " ">> \o msg, exit |-> 0,
          failed |-> "none"]
  ELSE IF wr = "short"
    THEN [file |-> Append(f, [by |-> i, text |-> SubSeq(line, 1, 1)])]
           @@ Fatal("write", ClientMsgWriteFailed(<<ErrWrite>>))
    ELSE [file |-> f] @@ Fatal("write", ClientMsgWriteFailed(<<ErrWrite>>))

\* faulty variant: the report is made from an ErrorResponse the body was not
\* decoded into
handleErrorNotDecodedInto(stream, rerr) ==
  LET d == DecodeErrorResponse(stream, rerr) IN
  IF d.err # NoError
    THEN Fatal("decode", ClientMsgDecodeFailed(d.err))
    ELSE Fatal("status", ClientMsgServerError(ZeroErrorResponse))

\* handleError(resp.Body): the message logged and the exit status
handleError(stream, rerr) ==
  LET d == DecodeErrorResponse(stream, rerr) IN
  IF d.err # NoError
    THEN Fatal("decode", ClientMsgDecodeFailed(d.err))
    ELSE Fatal("status", ClientMsgServerError(d.val))

\* the errors reading the response body may report at the client
ClientBodyReadErrs == {NoError, <<ErrUnexpectedEOF>>}

\* lines 45-52: the request context is created and the request is sent
ClientStart(i) ==
  /\ cpc[i] = "init"
  /\ cctx' = [cctx EXCEPT ![i] = WithTimeout(NoDeadline, clientRequestTimeout)]
  /\ creq' = [creq EXCEPT ![i] = @ + 1]
  /\ cpc' = [cpc EXCEPT ![i] = "do"]
  /\ UNCHANGED <<cexit, cmsg, crecv, cfailed, file, handlerVars, processVars>>

\* the message of lines 54-59
ClientDoErrorMsg(err) ==
  IF ErrorsIs(err, DeadlineExceeded) THEN ClientMsgTimeout ELSE ClientMsgDoFailed(err)

\* the errors http.DefaultClient.Do may return at the client: the deadline
\* of its context, or no connection when no handler took the request
ClientDoErrs(i) ==
  CtxErrs(cctx[i], FALSE) \cup (IF spc[i] = "idle" THEN {ErrTransport} ELSE {})

\* lines 52-61: http.DefaultClient.Do returns an error
ClientDoError(i) ==
  /\ cpc[i] = "do"
  /\ \E e \in ClientDoErrs(i) :
       LET r == Fatal("do", ClientDoErrorMsg(<<e>>)) IN
       /\ cmsg' = [cmsg EXCEPT ![i] = r.msg]
       /\ cexit' = [cexit EXCEPT ![i] = r.exit]
       /\ cfailed' = [cfailed EXCEPT ![i] = r.failed]
  /\ cpc' = [cpc EXCEPT ![i] = "exit"]
  /\ cctx' = [cctx EXCEPT ![i] = NoDeadline]
  /\ UNCHANGED <<creq, crecv, file, handlerVars, processVars>>

\* lines 52, 64-66: the handler's response arrives with status 200
ClientStatusOK(i) ==
  /\ cpc[i] = "do"
  /\ spc[i] = "done"
  /\ CtxErrs(cctx[i], FALSE) = {}
  /\ w[i].status = StatusOK
  /\ \E rerr \in ClientBodyReadErrs, openOK \in BOOLEAN, wr \in {"ok", "short", "fail"} :
       LET r == saveQuotationToFile(i, file, Delivered(w[i]), rerr, openOK, wr) IN
       /\ file' = r.file
       /\ cmsg' = [cmsg EXCEPT ![i] = r.msg]
       /\ cexit' = [cexit EXCEPT ![i] = r.exit]
       /\ cfailed' = [cfailed EXCEPT ![i] = r.failed]
  /\ crecv' = [crecv EXCEPT ![i] = w[i].status]
  /\ cpc' = [cpc EXCEPT ![i] = "exit"]
  /\ cctx' = [cctx EXCEPT ![i] = NoDeadline]
  /\ UNCHANGED <<creq, handlerVars, processVars>>

\* lines 52, 64, 67-68: the handler's response arrives with another status
ClientStatusOther(i) ==
  /\ cpc[i] = "do"
  /\ spc[i] = "done"
  /\ CtxErrs(cctx[i], FALSE) = {}
  /\ w[i].status # StatusOK
  /\ \E rerr \in ClientBodyReadErrs :
       LET r == handleError(Delivered(w[i]), rerr) IN
       /\ cmsg' = [cmsg EXCEPT ![i] = r.msg]
       /\ cexit' = [cexit EXCEPT ![i] = r.exit]
       /\ cfailed' = [cfailed EXCEPT ![i] = r.failed]
  /\ crecv' = [crecv EXCEPT ![i] = w[i].status]
  /\ cpc' = [cpc EXCEPT ![i] = "exit"]
  /\ cctx' = [cctx EXCEPT ![i] = NoDeadline]
  /\ UNCHANGED <<creq, file, handlerVars, processVars>>

(* --------------------------- specification ---------------------------- *)

Next ==
  \/ startDatabase
  \/ ServerStop
  \/ \E i \in Sessions : Tick(i)
  \/ \E i \in Sessions : ClientStart(i)
  \/ \E i \in Sessions : ClientDoError(i)
  \/ \E i \in Sessions : ClientStatusOK(i)
  \/ \E i \in Sessions : ClientStatusOther(i)
  \/ \E i \in Sessions : HandlerStart(i)
  \/ \E i \in Sessions : DoError(i)
  \/ \E i \in Sessions : DoResponse(i)
  \/ \E i \in Sessions : DecodeError(i)
  \/ \E i \in Sessions : DecodeOK(i)
  \/ \E i \in Sessions : PrepareError(i)
  \/ \E i \in Sessions : PrepareOK(i)
  \/ \E i \in Sessions : ExecError(i)
  \/ \E i \in Sessions : ExecOK(i)
  \/ \E i \in Sessions : Respond(i)
  \/ \E i \in Sessions : CancelInbound(i)

Spec == Init /\ [][Next]_vars

\* What the scheduling of the program guarantees.  The clock advances; an
\* operation bound to a context returns once the context is done (the
\* outbound call and the reading of its body are bound to ctx, ExecContext
\* to dbCtx); encoding the response writes to the buffer of the response
\* writer and returns.  db.Prepare (line 162) is bound to no context: nothing
\* in the program makes it return, so no fairness is stated for it.
Fairness ==
  \A i \in Sessions :
    /\ WF_vars(Tick(i))
    /\ WF_vars(CtxErrs(ctx[i], rCanceled[i]) # {} /\ DoError(i))
    /\ WF_vars(CtxErrs(ctx[i], rCanceled[i]) # {} /\ DecodeError(i))
    /\ WF_vars(CtxErrs(dbCtx[i], rCanceled[i]) # {} /\ ExecError(i))
    /\ WF_vars(Respond(i))

FairSpec == Init /\ [][Next]_vars /\ Fairness

(* ------------------------------ claims -------------------------------- *)

\* the rows request i added to the table
RowsOf(i) == SelectSeq(rows, LAMBDA r : r.req = i)

\* the chunks client i appended to the file
ChunksOf(i) == SelectSeq(file, LAMBDA c : c.by = i)

\* the chunks of client i that are whole lines
LinesOf(i) == SelectSeq(ChunksOf(i), LAMBDA c : c.text[Len(c.text)] = "\n")

\* the bid of the QuotationResponse the handler encoded first
ReturnedBid(i) == DecodeQuotationResponse(<<w[i].body[1].v>>, NoError).val.Bid

\* the bid member of the upstream document, empty when it has none
UpstreamBid(body) ==
  IF /\ body.t = "obj"
     /\ "USDBRL" \in DOMAIN body.o
     /\ body.o["USDBRL"].t = "obj"
     /\ "bid" \in DOMAIN body.o["USDBRL"].o
     /\ body.o["USDBRL"].o["bid"].t = "str"
    THEN body.o["USDBRL"].o["bid"].s
    ELSE <<>>

\* the ErrorResponse the handler encoded last
SentError(i) ==
  DecodeErrorResponse(<<w[i].body[Len(w[i].body)].v>>, NoError).val

\* the body is JSON of the expected shape: an object whose USDBRL member is
\* an object with the eleven quotation members, all strings
MatchesShape(body) ==
  /\ body.t = "obj"
  /\ "USDBRL" \in DOMAIN body.o
  /\ body.o["USDBRL"].t = "obj"
  /\ \A f \in QFieldSet :
       /\ JsonKey(f) \in DOMAIN body.o["USDBRL"].o
       /\ body.o["USDBRL"].o[JsonKey(f)].t = "str"

\* C1: for every request answered with status 200, the bid of the
\* QuotationResponse equals the bid of the one row the request inserted,
\* and both equal the bid of the upstream document.
C1_BidPreserved ==
  \A i \in Sessions :
    w[i].status = StatusOK =>
      /\ Len(RowsOf(i)) = 1
      /\ ReturnedBid(i) = RowsOf(i)[1].row.bid
      /\ RowsOf(i)[1].row.bid = UpstreamBid(resp[i].Body)

C1_Witness ==
  \E i \in Sessions :
    /\ w[i].status = StatusOK
    /\ failed[i].stage = "none"
    /\ ReturnedBid(i) = <<"5.46">>
    /\ Len(RowsOf(i)) = 1

\* C2: when the outbound call (the wait for the response or the reading of
\* its body) ends with the request deadline exceeded, the handler answers
\* 500 with the timeout message and never calls saveQuotationToDB.
C2_TimeoutReported ==
  \A i \in Sessions :
    /\ failed[i].stage \in {"fetch", "decode"}
    /\ ErrorsIs(failed[i].err, DeadlineExceeded)
    => /\ w[i].status = StatusInternalServerError
       /\ SentError(i).Error = MsgTimeout
       /\ nInsert[i] = 0
       /\ Len(RowsOf(i)) = 0

\* C3: when the insert ends with the database deadline exceeded, the
\* handler answers 500 with an ErrorResponse carrying the persistence
\* failure message, and the client of the request never receives a 200.
C3_PersistTimeoutIs500 ==
  \A i \in Sessions :
    /\ failed[i].stage = "exec"
    /\ ErrorsIs(failed[i].err, DeadlineExceeded)
    => /\ spc[i] = "done"
       /\ w[i].status = StatusInternalServerError
       /\ Delivered(w[i]) =
            <<MarshalErrorResponse([Error |-> MsgSaveFailed(failed[i].err),
                                    StatusCode |-> StatusInternalServerError])>>
       /\ crecv[i] # StatusOK
       /\ cexit[i] # 0
       /\ Len(ChunksOf(i)) = 0

C3_Witness ==
  \E i \in Sessions :
    /\ failed[i].stage = "exec"
    /\ ErrorsIs(failed[i].err, DeadlineExceeded)
    /\ cpc[i] = "exit"
    /\ crecv[i] = StatusInternalServerError

\* C4: the insert is attempted only after the fetch and the decode
\* succeeded, status 200 is written only after the insert added the row,
\* and writing the response is the handler's last step.
C4_StepOrder ==
  \A i \in Sessions :
    /\ (nInsert[i] > 0 \/ spc[i] \in {"prepare", "exec", "respond"}) =>
         /\ nGet[i] = 1
         /\ resp[i] # NoReply
         /\ DecodeUSDBRLQuotation(resp[i].Body, NoError).err = NoError
         /\ cotacao[i] = DecodeUSDBRLQuotation(resp[i].Body, NoError).val
    /\ Len(RowsOf(i)) > 0 => nInsert[i] = 1
    /\ w[i].status = StatusOK =>
         /\ nInsert[i] = 1
         /\ RowsOf(i) = <<[req |-> i, row |-> InsertedRow(cotacao[i])]>>
    /\ w[i].wroteHeader => spc[i] = "done"

C4_Witness ==
  \E i \in Sessions :
    /\ spc[i] = "done"
    /\ w[i].status = StatusOK
    /\ nGet[i] = 1
    /\ nInsert[i] = 1
    /\ Len(RowsOf(i)) = 1

\* C5: a request issues at most one outbound GET and at most one insert,
\* adds at most one row, and once a stage has failed the handler has
\* returned without running any later stage.
C5_NoRetryFirstFailureTerminal ==
  \A i \in Sessions :
    /\ nGet[i] <= 1
    /\ nInsert[i] <= 1
    /\ Len(RowsOf(i)) <= 1
    /\ failed[i].stage # "none" => spc[i] = "done"
    /\ failed[i].stage = "fetch" =>
         resp[i] = NoReply /\ cotacao[i] = ZeroQuotation /\ nInsert[i] = 0
    /\ failed[i].stage = "decode" => cotacao[i] = ZeroQuotation /\ nInsert[i] = 0
    /\ failed[i].stage = "prepare" => nInsert[i] = 0
    /\ failed[i].stage \in {"fetch", "decode", "prepare", "exec"} =>
         /\ Len(RowsOf(i)) = 0
         /\ Len(w[i].body) = 1
         /\ w[i].status # StatusOK

C5_Witness ==
  \E i \in Sessions, j \in Sessions :
    /\ failed[i].stage = "exec"
    /\ nGet[i] = 1
    /\ nInsert[i] = 1
    /\ failed[j].stage = "fetch"
    /\ nGet[j] = 1

\* C6: every failure in the handler is answered with a 500-class status
\* and a body that is one ErrorResponse carrying the message; no failing
\* request is answered with status 200.
C6_EveryFailureIs500 ==
  \A i \in Sessions :
    failed[i].stage # "none" =>
      /\ w[i].status \in 500..599
      /\ Len(w[i].body) = 1
      /\ w[i].body[1].v =
           MarshalErrorResponse([Error |-> SentError(i).Error,
                                 StatusCode |-> w[i].status])

\* C7: when the upstream body is not JSON of the expected shape, the
\* handler answers 500 and inserts no row (stated for the requests whose
\* response is written without a write error).
C7_BadShapeRejected ==
  \A i \in Sessions :
    /\ spc[i] = "done"
    /\ failed[i].stage # "encode"
    /\ resp[i] # NoReply
    /\ ~MatchesShape(resp[i].Body)
    => /\ w[i].status = StatusInternalServerError
       /\ Len(RowsOf(i)) = 0

\* the message and status code embedded in the body the handler sent
\* with its error status
EmbeddedError(i) ==
  [Error |-> w[i].body[1].v.o["error"].s,
   StatusCode |-> w[i].body[1].v.o["status_code"].n]

\* C8 as stated: after a response with a status other than 200 the client
\* exits reporting exactly the message and status code embedded in the
\* body, having made one request and written nothing to the file.
C8_ReportsEmbeddedError ==
  \A i \in Sessions :
    cpc[i] = "exit" /\ crecv[i] \notin {0, StatusOK} =>
      /\ cmsg[i] = ClientMsgServerError(EmbeddedError(i))
      /\ creq[i] = 1
      /\ Len(ChunksOf(i)) = 0

\* C8 as amended: after a response with a status other than 200 the client
\* exits with a non-zero status, having made one request and written
\* nothing to the file; when the body was read and decoded it reports
\* exactly the message and status code embedded in it, and otherwise it
\* reports the failure to decode the body.
C8_ReportsEmbeddedErrorIfDecoded ==
  \A i \in Sessions :
    cpc[i] = "exit" /\ crecv[i] \notin {0, StatusOK} =>
      /\ creq[i] = 1
      /\ Len(ChunksOf(i)) = 0
      /\ cexit[i] = 1
      /\ cfailed[i] \in {"status", "decode"}
      /\ cfailed[i] = "status" => cmsg[i] = ClientMsgServerError(EmbeddedError(i))
      /\ cfailed[i] = "decode" =>
           cmsg[i] = ClientMsgDecodeFailed(<<ErrUnexpectedEOF>>)

C8_Witness ==
  \E i \in Sessions :
    /\ cpc[i] = "exit"
    /\ crecv[i] = StatusInternalServerError
    /\ cfailed[i] = "status"
    /\ cmsg[i] = ClientMsgServerError([Error |-> MsgTimeout,
                                       StatusCode |-> StatusInternalServerError])

\* the bid the client decodes from the body delivered to it
ReceivedBid(i) == DecodeQuotationResponse(Delivered(w[i]), NoError).val.Bid

\* C9: a client invocation makes exactly one request; when it has exited,
\* it has appended exactly one line, the label followed by the received
\* bid, if and only if it received a 200 and no step (decode, open, write)
\* failed, and then it exits with status 0; on every failure path it has
\* appended no line and exits with status 1.
C9_OneRequestOneLine ==
  \A i \in Sessions :
    /\ creq[i] <= 1
    /\ cpc[i] # "init" => creq[i] = 1
    /\ cpc[i] # "exit" => Len(ChunksOf(i)) = 0 /\ cexit[i] = -1
    /\ cpc[i] = "exit" =>
         /\ cexit[i] \in {0, 1}
         /\ cexit[i] = 0 <=> (crecv[i] = StatusOK /\ cfailed[i] = "none")
         /\ cexit[i] = 0 <=> Len(LinesOf(i)) = 1
         /\ Len(LinesOf(i)) <= 1
         /\ Len(ChunksOf(i)) <= 1
         /\ Len(LinesOf(i)) = 1 =>
              LinesOf(i)[1].text = FileLine(FileMsg(ReceivedBid(i)))
         /\ Len(ChunksOf(i)) > Len(LinesOf(i)) => cfailed[i] = "write"

C9_Witness ==
  \E i \in Sessions, j \in Sessions :
    /\ cpc[i] = "exit"
    /\ cexit[i] = 0
    /\ LinesOf(i) = <<[by |-> i, text |-> <<"Dólar: ", "5.45", "\n">>]>>
    /\ cpc[j] = "exit"
    /\ cfailed[j] = "write"
    /\ Len(ChunksOf(j)) = 1

\* C10: in every error response the handler sends, the status_code member
\* of the ErrorResponse it writes equals the HTTP status of the response.
C10_StatusCodeEchoesStatus ==
  \A i \in Sessions :
    \A k \in 1..Len(w[i].body) :
      "status_code" \in DOMAIN w[i].body[k].v.o =>
        w[i].body[k].v.o["status_code"].n = w[i].status

\* the number of tables of cotacao.db with the given name
TableCount(name) == Cardinality({k \in 1..Len(tables) : tables[k] = name})

\* C11: the database never holds more than one cotacao table, and a
\* startDatabase that runs when the table already exists does not end the
\* process because of the table, creates no table and leaves every row as
\* it is, however often the server is started.
C11_BootstrapIdempotent ==
  /\ [](TableCount("cotacao") <= 1)
  /\ [][(server # "serving" /\ server' # server /\ TableExists(tables, "cotacao")) =>
          /\ tables' = tables
          /\ rows' = rows
          /\ ~ErrorsIs(sfatal', ErrTableExists)
          /\ (sfatal' = NoError => server' = "serving")]_vars

C11_Witness ==
  /\ server = "serving"
  /\ boot = "present"
  /\ tables = <<"cotacao">>
  /\ Len(rows) = 2

\* C12: the context of the outbound call never has more time left than the
\* request timeout or than r.Context(), context.WithTimeout giving the
\* stricter of the parent's time left and the timeout; and once that time
\* is used up the call (the wait for the response, the reading of its body)
\* can only end in an error: the handler answers 500 and adds no row.
C12_OutboundDeadlineIsStricter ==
  /\ [](/\ \A p \in 0..NoDeadline, d \in 0..NoDeadline :
             /\ WithTimeout(p, d) <= p
             /\ WithTimeout(p, d) <= d
             /\ WithTimeout(p, d) \in {p, d}
        /\ \A i \in Sessions :
             spc[i] \in {"fetch", "decode"} =>
               ctx[i] <= requestTimeout /\ ctx[i] <= rContextLeft)
  /\ [][\A i \in Sessions :
          (spc[i] \in {"fetch", "decode"} /\ ctx[i] = 0 /\ spc'[i] # spc[i]) =>
            /\ spc'[i] = "done"
            /\ failed'[i].stage = spc[i]
            /\ w'[i].status = StatusInternalServerError
            /\ rows' = rows]_vars

C12_Witness ==
  \E i \in Sessions :
    /\ failed[i].stage = "decode"
    /\ ErrorsIs(failed[i].err, DeadlineExceeded)
    /\ ~rCanceled[i]
    /\ w[i].status = StatusInternalServerError
    /\ Len(RowsOf(i)) = 0

\* C13: ExecContext starts with the full database timeout (bounded only by
\* r.Context()), whatever is left of the outbound call's context, and an
\* insert fails with the deadline exceeded only when the time of dbCtx
\* itself is used up.
C13_InsertDeadlineIndependent ==
  [][\A i \in Sessions :
       /\ (spc[i] = "prepare" /\ spc'[i] = "exec") =>
            dbCtx'[i] = Min(rContextLeft, databaseTimeout)
       /\ (spc[i] = "exec" /\ spc'[i] = "done"
             /\ ErrorsIs(failed'[i].err, DeadlineExceeded)) => dbCtx[i] = 0]_vars

C13_Witness ==
  \E i \in Sessions :
    /\ spc[i] = "respond"
    /\ ctx[i] = 0
    /\ nInsert[i] = 1
    /\ Len(RowsOf(i)) = 1

\* C14: once r.Context() is cancelled, an outbound call in flight (the wait
\* for the response, the reading of its body) ends in an error, the handler
\* answers 500 and ExecContext is never called; an insert in flight ends in
\* an error, adds no row and the handler does not answer 200.
C14_CancelPropagates ==
  [][\A i \in Sessions :
       (rCanceled[i] /\ spc'[i] # spc[i]) =>
         /\ spc[i] \in {"fetch", "decode"} =>
              /\ spc'[i] = "done"
              /\ failed'[i].stage = spc[i]
              /\ w'[i].status = StatusInternalServerError
              /\ nInsert'[i] = 0
              /\ rows' = rows
         /\ spc[i] = "exec" =>
              /\ spc'[i] = "done"
              /\ failed'[i].stage = "exec"
              /\ w'[i].status # StatusOK
              /\ rows' = rows]_vars

C14_Witness ==
  \E i \in Sessions, j \in Sessions :
    /\ rCanceled[i]
    /\ failed[i].stage = "exec"
    /\ failed[i].err = ErrorfW("falha ao executar query. ", <<Canceled>>)
    /\ rCanceled[j]
    /\ failed[j].stage = "fetch"
    /\ failed[j].err = <<Canceled>>

\* the insert of request i added its row
InsertSucceeded(i) ==
  \/ spc[i] = "respond"
  \/ spc[i] = "done" /\ failed[i].stage \in {"none", "encode"}

\* C15: whatever the interleaving of the requests, the bid a request
\* answers with status 200 is the bid of the document its own outbound call
\* received; the table holds exactly one row for each request whose insert
\* succeeded, equal to the quotation that request decoded; and a step adds
\* at most one row at the end of the table and changes no row.
C15_RequestsIndependent ==
  /\ [](\A i \in Sessions :
          /\ w[i].status = StatusOK => ReturnedBid(i) = UpstreamBid(resp[i].Body)
          /\ Len(RowsOf(i)) = IF InsertSucceeded(i) THEN 1 ELSE 0
          /\ \A k \in 1..Len(RowsOf(i)) :
               /\ RowsOf(i)[k].row = InsertedRow(cotacao[i])
               /\ cotacao[i] = DecodeUSDBRLQuotation(resp[i].Body, NoError).val)
  /\ [][\/ rows' = rows
        \/ /\ Len(rows') = Len(rows) + 1
           /\ SubSeq(rows', 1, Len(rows)) = rows]_vars

C15_Witness ==
  /\ Len(rows) = 2
  /\ rows[1].req = 2
  /\ rows[2].req = 1
  /\ w[1].status = StatusOK
  /\ w[2].status = StatusOK
  /\ ReturnedBid(1) = <<"5.45">>
  /\ ReturnedBid(2) = <<"5.46">>

\* C16: every handler invocation terminates with a response: a handler
\* that has taken a request eventually has returned with the response
\* header written, each of its steps being bounded by a deadline.
C16_HandlerTerminates ==
  \A i \in Sessions :
    (spc[i] # "idle") ~> (spc[i] = "done" /\ w[i].wroteHeader)

\* C17: a request whose outbound call received a reply with a status
\* outside 200..299 adds no row to the table and is not answered with
\* status 200.
C17_NonSuccessUpstreamRejected ==
  \A i \in Sessions :
    (resp[i] # NoReply /\ resp[i].StatusCode \notin 200..299) =>
      /\ Len(RowsOf(i)) = 0
      /\ w[i].status # StatusOK

\* C18: every whole line a client has appended to the file is the label
\* followed by the bid of the row that the request answering that client
\* has inserted into the table.
C18_LineBidIsStored ==
  \A i \in Sessions :
    \A k \in 1..Len(LinesOf(i)) :
      /\ Len(RowsOf(i)) = 1
      /\ LinesOf(i)[k].text = FileLine(FileMsg(RowsOf(i)[1].row.bid))

C18_Witness ==
  \E i \in Sessions, j \in Sessions :
    /\ cexit[i] = 0
    /\ Len(LinesOf(i)) = 1
    /\ Len(RowsOf(i)) = 1
    /\ RowsOf(i)[1].row.bid = <<"5.46">>
    /\ cpc[j] = "exit"
    /\ Len(RowsOf(j)) = 1
    /\ Len(ChunksOf(j)) = 0

=============================================================================
